---- MODULE Spec2Model ----
(***************************************************************************)
(* Model of scripts/ensure_services_operated.py: the ServiceManager that   *)
(* wraps `docker compose` to build, start, stop and inspect five services. *)
(* Text is kept as text: the outputs of the external tool are strings and  *)
(* the parsing steps (strip, split, substring search, lower) are computed  *)
(* character by character as the Python code computes them.                *)
(***************************************************************************)
EXTENDS Integers, Sequences, FiniteSets, TLC

(***************************************************************************)
(* Bounds of the model.                                                    *)
(***************************************************************************)
\* number of chunks of the structured (`ps --format json`) output
MaxJsonChunks == 2
\* number of chunks of the plain (`ps`) output
MaxTextChunks == 2

(***************************************************************************)
(* ServiceManager.__init__: the registry and the alias table.              *)
(***************************************************************************)
\* self.services, in insertion order (dict order is the registry order)
ServiceKeys == <<"page-server", "api-server", "db-server", "nginx", "redis">>

services ==
  [k \in {ServiceKeys[i] : i \in 1..Len(ServiceKeys)} |->
     CASE k = "page-server" -> "Page Server (Next.js)"
       [] k = "api-server"  -> "API Server (FastAPI)"
       [] k = "db-server"   -> "Database Server (PostgreSQL)"
       [] k = "nginx"       -> "Nginx (Reverse Proxy)"
       [] k = "redis"       -> "Redis (Cache)"]

service_mapping ==
  [n \in {"servers-page-server-1", "servers-api-server-1", "servers-db-server-1",
          "servers-nginx-1", "servers-redis-1"} |->
     CASE n = "servers-page-server-1" -> "page-server"
       [] n = "servers-api-server-1"  -> "api-server"
       [] n = "servers-db-server-1"   -> "db-server"
       [] n = "servers-nginx-1"       -> "nginx"
       [] n = "servers-redis-1"       -> "redis"]

(***************************************************************************)
(* Python string operations used by the parsers.                           *)
(***************************************************************************)
\* the value None, where a str is expected (stdout of an uncaptured process)
PyNone == "<None>"

CharAt(s, i) == SubSeq(s, i, i)

\* str.isspace() for one character
IsSpace(c) == c \in {" ", "\t", "\n", "\r"}

\* s[i:i+len(w)] == w, compared character by character
RECURSIVE MatchAt(_, _, _, _)
MatchAt(s, w, i, j) ==
  IF j > Len(w) THEN TRUE
  ELSE IF CharAt(s, i + j - 1) # CharAt(w, j) THEN FALSE
  ELSE MatchAt(s, w, i, j + 1)

\* `w in s`
Contains(s, w) == \E i \in 1..(Len(s) - Len(w) + 1) : MatchAt(s, w, i, 1)

\* index of the first non-space character at or after i, Len(s)+1 when none
RECURSIVE FirstNonSpace(_, _)
FirstNonSpace(s, i) ==
  IF i > Len(s) THEN i
  ELSE IF IsSpace(CharAt(s, i)) THEN FirstNonSpace(s, i + 1)
  ELSE i

\* index of the last non-space character at or before i, 0 when none
RECURSIVE LastNonSpace(_, _)
LastNonSpace(s, i) ==
  IF i < 1 THEN 0
  ELSE IF IsSpace(CharAt(s, i)) THEN LastNonSpace(s, i - 1)
  ELSE i

\* str.strip()
Strip(s) ==
  LET a == FirstNonSpace(s, 1)
      b == LastNonSpace(s, Len(s))
  IN  IF a > b THEN "" ELSE SubSeq(s, a, b)

\* position of the first sep in s at or after i, 0 when there is none
RECURSIVE FindFrom(_, _, _)
FindFrom(s, sep, i) ==
  IF i > Len(s) THEN 0
  ELSE IF CharAt(s, i) = sep THEN i
  ELSE FindFrom(s, sep, i + 1)

RECURSIVE SplitLinesFrom(_, _)
SplitLinesFrom(s, i) ==
  LET p == FindFrom(s, "\n", i) IN
  IF p = 0 THEN <<SubSeq(s, i, Len(s))>>
  ELSE <<SubSeq(s, i, p - 1)>> \o SplitLinesFrom(s, p + 1)

\* str.split('\n'): empty pieces are kept, "" gives <<"">>
SplitLines(s) == SplitLinesFrom(s, 1)

\* end of the run of non-space characters that starts at i
RECURSIVE TokenEnd(_, _)
TokenEnd(s, i) ==
  IF i > Len(s) \/ IsSpace(CharAt(s, i)) THEN i - 1 ELSE TokenEnd(s, i + 1)

RECURSIVE SplitWsFrom(_, _)
SplitWsFrom(s, i) ==
  LET a == FirstNonSpace(s, i) IN
  IF a > Len(s) THEN <<>>
  ELSE LET e == TokenEnd(s, a) IN
       <<SubSeq(s, a, e)>> \o SplitWsFrom(s, e + 1)

\* str.split(): split on runs of whitespace, no empty tokens
SplitWs(s) == SplitWsFrom(s, 1)

UpperChars == "ABCDEFGHIJKLMNOPQRSTUVWXYZ"
LowerChars == "abcdefghijklmnopqrstuvwxyz"

LowerChar(c) ==
  LET p == FindFrom(UpperChars, c, 1) IN
  IF p = 0 THEN c ELSE CharAt(LowerChars, p)

\* str.lower()
RECURSIVE Lower(_)
Lower(s) ==
  IF s = "" THEN "" ELSE LowerChar(CharAt(s, 1)) \o Lower(SubSeq(s, 2, Len(s)))

\* truth value of a str-or-None
Truthy(s) == s # PyNone /\ s # ""

(***************************************************************************)
(* Python dict as a function over its set of keys.                         *)
(***************************************************************************)
EmptyDict == [k \in {} |-> ""]

\* d[k] = v
DictPut(d, k, v) == [x \in (DOMAIN d) \cup {k} |-> IF x = k THEN v ELSE d[x]]

(***************************************************************************)
(* Lines the external tool prints.  json.loads is a library function: it   *)
(* is modelled by its verdict on each line text of the vocabulary.         *)
(***************************************************************************)
JL_PageUp       == "{\"Service\":\"page-server\",\"State\":\"Up\"}"
JL_ApiExited    == "{\"Service\":\"api-server\",\"State\":\"exited\"}"
JL_ApiRunning   == "{\"Service\":\"api-server\",\"State\":\"running\"}"
JL_DbRunning    == "{\"Service\":\"db-server\",\"State\":\"running\"}"
JL_NginxStarted == "{\"Service\":\"nginx\",\"State\":\"Started\"}"
JL_RedisRunning == "{\"Service\":\"redis\",\"State\":\"running\"}"
JL_RedisNull    == "{\"Service\":\"redis\",\"State\":null}"
JL_EmptyService == "{\"Service\":\"\",\"State\":\"Up\"}"
JL_Orphan       == "{\"Service\":\"adminer\",\"State\":\"running\"}"
JL_Array        == "[{\"Service\":\"page-server\",\"State\":\"Up\"}]"
JL_Bad          == "{bad"

\* a parsed JSON object: the two members the code reads (None for null)
JObj(hasService, service, hasState, state) ==
  [ok |-> TRUE, kind |-> "object", hasService |-> hasService, Service |-> service,
   hasState |-> hasState, State |-> state]

\* a parsed JSON value that is not an object
JOther(kind) ==
  [ok |-> TRUE, kind |-> kind, hasService |-> FALSE, Service |-> "",
   hasState |-> FALSE, State |-> ""]

\* json.JSONDecodeError
JDecodeError ==
  [ok |-> FALSE, kind |-> "error", hasService |-> FALSE, Service |-> "",
   hasState |-> FALSE, State |-> ""]

\* json.loads(text)
JsonLoads(text) ==
  CASE text = JL_PageUp       -> JObj(TRUE, "page-server", TRUE, "Up")
    [] text = JL_ApiExited    -> JObj(TRUE, "api-server", TRUE, "exited")
    [] text = JL_ApiRunning   -> JObj(TRUE, "api-server", TRUE, "running")
    [] text = JL_DbRunning    -> JObj(TRUE, "db-server", TRUE, "running")
    [] text = JL_NginxStarted -> JObj(TRUE, "nginx", TRUE, "Started")
    [] text = JL_RedisRunning -> JObj(TRUE, "redis", TRUE, "running")
    [] text = JL_RedisNull    -> JObj(TRUE, "redis", TRUE, PyNone)
    [] text = JL_EmptyService -> JObj(TRUE, "", TRUE, "Up")
    [] text = JL_Orphan       -> JObj(TRUE, "adminer", TRUE, "running")
    [] text = JL_Array        -> JOther("array")
    [] OTHER                  -> JDecodeError

\* container.get(key, '')
DictGet(has, value) == IF has THEN value ELSE ""

(***************************************************************************)
(* get_service_status, structured path (lines 198-214).                    *)
(***************************************************************************)
\* the for loop over lines; a non-object line raises AttributeError in
\* container.get, which the outer `except Exception` catches: the loop ends
RECURSIVE JsonLoop(_, _, _)
JsonLoop(lines, i, st) ==
  IF i > Len(lines) THEN st
  ELSE IF Strip(lines[i]) = "" THEN JsonLoop(lines, i + 1, st)
  ELSE LET container == JsonLoads(Strip(lines[i])) IN
       IF ~container.ok THEN JsonLoop(lines, i + 1, st)
       ELSE IF container.kind # "object" THEN st
       ELSE LET service_name == DictGet(container.hasService, container.Service)
                state == DictGet(container.hasState, container.State)
            IN  IF Truthy(service_name)
                THEN JsonLoop(lines, i + 1, DictPut(st, service_name, state))
                ELSE JsonLoop(lines, i + 1, st)

\* status after the structured attempt, from the command's result
ParseJsonStatus(returncode, stdout) ==
  IF returncode = 0 /\ Truthy(stdout)
  THEN JsonLoop(SplitLines(Strip(stdout)), 1, EmptyDict)
  ELSE EmptyDict

(***************************************************************************)
(* get_service_status, text fallback (lines 217-238).                      *)
(***************************************************************************)
StatusWords == {"Up", "Running", "Started"}

\* a fault: the status words are searched without regard to case
HasStatusWord_AnyCase(line) == \E w \in StatusWords : Contains(Lower(line), Lower(w))

\* any(status_word in line for status_word in ['Up', 'Running', 'Started'])
HasStatusWord(line) == \E w \in StatusWords : Contains(line, w)

\* a fault: the alias table is not consulted
MappedKey_NoAlias(service_name) == service_name

\* key under which a container name is stored
MappedKey(service_name) ==
  IF service_name \in DOMAIN service_mapping
  THEN service_mapping[service_name]
  ELSE service_name

\* the for loop over lines[1:]
RECURSIVE TextLoop(_, _, _)
TextLoop(lines, i, st) ==
  IF i > Len(lines) THEN st
  ELSE IF Strip(lines[i]) = "" THEN TextLoop(lines, i + 1, st)
  ELSE LET parts == SplitWs(lines[i]) IN
       IF Len(parts) >= 2 /\ HasStatusWord(lines[i])
       THEN TextLoop(lines, i + 1, DictPut(st, MappedKey(parts[1]), "Up"))
       ELSE TextLoop(lines, i + 1, st)

\* a fault: the output of a failed command is parsed as well
ParseTextStatus_IgnoringExit(st, returncode, stdout) ==
  IF Truthy(stdout)
  THEN TextLoop(SplitLines(Strip(stdout)), 2, st)
  ELSE st

\* status after the text attempt, from the command's result
ParseTextStatus(st, returncode, stdout) ==
  IF returncode = 0 /\ Truthy(stdout)
  THEN TextLoop(SplitLines(Strip(stdout)), 2, st)
  ELSE st

\* a fault: the text command is issued whatever the structured attempt gave
NeedsFallback_Always(st) == TRUE

\* `if not status:` (line 217)
NeedsFallback(st) == DOMAIN st = {}

(***************************************************************************)
(* run_command (lines 81-101).  A process either cannot be spawned         *)
(* (subprocess.run raises) or exits with a code after printing out/err.    *)
(***************************************************************************)
Proc(spawnError, code, out, err) ==
  [spawnError |-> spawnError, code |-> code, out |-> out, err |-> err]

\* `x or ""`
OrEmpty(x) == IF Truthy(x) THEN x ELSE ""

\* what the CompletedProcess / CalledProcessError holds for a stream
Captured(capture_output, text) == IF capture_output THEN text ELSE PyNone

run_command(check, capture_output, proc) ==
  IF proc.spawnError
  THEN [rc |-> -1, stdout |-> "", stderr |-> proc.err]
  ELSE IF check /\ proc.code # 0
  THEN [rc |-> proc.code,
        stdout |-> OrEmpty(Captured(capture_output, proc.out)),
        stderr |-> OrEmpty(Captured(capture_output, proc.err))]
  ELSE [rc |-> proc.code,
        stdout |-> Captured(capture_output, proc.out),
        stderr |-> Captured(capture_output, proc.err)]

\* no command has run
NotRun == [rc |-> 0, stdout |-> PyNone, stderr |-> PyNone]

(***************************************************************************)
(* Inputs: what the environment can answer.                                *)
(***************************************************************************)
\* exit code of a failing process
ExitFailure == 1

\* processes whose output is not read by the caller
PlainProcs ==
  { Proc(FALSE, 0, "", ""),
    Proc(FALSE, ExitFailure, "", "error"),
    Proc(TRUE, 0, "", "[Errno 2] No such file or directory") }

JL_Rest4 ==
  JL_ApiRunning \o "\n" \o JL_DbRunning \o "\n" \o JL_NginxStarted \o "\n" \o JL_RedisRunning

JsonChunks ==
  { JL_PageUp, JL_ApiExited, JL_Rest4, JL_RedisNull, JL_EmptyService, JL_Orphan,
    JL_Array, JL_Bad, "" }

TL_Header   == "NAME STATUS"
TL_PageUp   == "servers-page-server-1  Up 3 minutes"
TL_Orphan   == "adminer-1\tRunning"
TL_LowerUp  == "servers-nginx-1 up"
TL_OneToken == "Up"
TL_NameUp   == "Upstream-1 Exited"
TL_Rest4 ==
  "servers-api-server-1 Up\nservers-db-server-1 Running\n" \o
  "servers-nginx-1 Started\n servers-redis-1 Up"

TextChunks ==
  { TL_Header, TL_PageUp, TL_Orphan, TL_LowerUp, TL_OneToken, TL_NameUp, TL_Rest4, "" }

\* "\n".join(chunks)
RECURSIVE JoinLines(_)
JoinLines(chunks) ==
  IF Len(chunks) = 0 THEN ""
  ELSE IF Len(chunks) = 1 THEN chunks[1]
  ELSE chunks[1] \o "\n" \o JoinLines(Tail(chunks))

Outputs(chunks, max) ==
  { JoinLines(c) : c \in UNION { [1..n -> chunks] : n \in 0..max } }

\* processes answering `ps --format json`
JsonProcs ==
  { Proc(FALSE, 0, out, "") : out \in Outputs(JsonChunks, MaxJsonChunks) }
    \cup { Proc(FALSE, ExitFailure, out, "error") : out \in {"", JL_PageUp} }
    \cup { Proc(TRUE, 0, "", "[Errno 2] No such file or directory") }

\* processes answering `ps`
TextProcs ==
  { Proc(FALSE, 0, out, "") : out \in Outputs(TextChunks, MaxTextChunks) }
    \cup { Proc(FALSE, ExitFailure, out, "error") : out \in {"", TL_Header \o "\n" \o TL_PageUp} }
    \cup { Proc(TRUE, 0, "", "[Errno 2] No such file or directory") }

RegisteredKeys == {ServiceKeys[i] : i \in 1..Len(ServiceKeys)}

\* service arguments a caller passes
ServiceArgs == RegisteredKeys \cup {"", "test-service"}

(***************************************************************************)
(* State: one call of a ServiceManager method in progress.                 *)
(***************************************************************************)
VARIABLES
  pc,        \* label of the statement to execute ("idle", "done" between calls)
  stack,     \* return labels of the callers, innermost first
  op,        \* the method the caller invoked
  argv,      \* main: the flags given on the command line
  service,   \* its service argument
  arg,       \* service argument of the method being executed
  retval,    \* value returned by the last method that returned
  outcome,   \* "running", "returned" or "raised"
  status,    \* the local `status` dict
  psResult,  \* get_service_status: returncode, stdout, stderr of its latest command
  structured, \* get_service_status: the entries of the structured attempt
  wasRunning, \* whether the target was running when the last command was issued
  fileIdx,   \* test_basic_environment: index in required_files
  portIdx,   \* test_services: index in ports
  log        \* calls made and external effects, in order

vars == <<pc, stack, op, argv, service, arg, retval, outcome, status, psResult,
          structured, wasRunning, fileIdx, portIdx, log>>

CallEv(fn, a)     == [k |-> "call", f |-> fn, a |-> a, rc |-> 0]
CmdEv(sub, a, rc) == [k |-> "cmd", f |-> sub, a |-> a, rc |-> rc]
FileEv(name, ok)  == [k |-> "exists", f |-> name, a |-> "", rc |-> IF ok THEN 0 ELSE 1]
RetEv(fn, v)      == [k |-> "ret", f |-> fn, a |-> v, rc |-> 0]
ProbeEv(name, rc) == [k |-> "probe", f |-> name, a |-> "", rc |-> rc]

\* `return v` from fn, lg being the log so far
Return(fn, v, lg) ==
  /\ retval' = v
  /\ log' = Append(lg, RetEv(fn, v))
  /\ IF stack = <<>>
     THEN pc' = "done" /\ outcome' = "returned" /\ stack' = stack
     ELSE pc' = Head(stack) /\ stack' = Tail(stack) /\ outcome' = outcome

\* frames whose code encloses the call in a try with `except Exception`:
\* the dispatch of show_menu (459-488) and that of the submenu (500-515)
\* a fault: the submenu has no handlers of its own
HandlerFrames_MenuOnly == {"show_menu:enter"}

HandlerFrames == {"show_menu:enter", "show_service_selection_menu:done"}

\* where the handler of such a frame continues: the menu loop prints the
\* error and iterates, the submenu prints it and ends
ExceptLabel(frame) == IF frame = "show_menu:enter" THEN "show_menu:except" ELSE frame

\* an exception (an Exception, not a KeyboardInterrupt), lg being the log so
\* far: the innermost enclosing handler takes it, and it leaves the program
\* when there is none
Raise(lg) ==
  /\ log' = lg
  /\ retval' = retval
  /\ IF \E h \in 1..Len(stack) : stack[h] \in HandlerFrames
     THEN LET h == CHOOSE i \in 1..Len(stack) :
                     /\ stack[i] \in HandlerFrames
                     /\ \A j \in 1..(i - 1) : stack[j] \notin HandlerFrames
          IN  /\ pc' = ExceptLabel(stack[h])
              /\ stack' = SubSeq(stack, h + 1, Len(stack))
              /\ outcome' = outcome
     ELSE /\ pc' = "done"
          /\ outcome' = "raised"
          /\ stack' = <<>>

\* a KeyboardInterrupt under the interactive menu, lg being the log so far.
\* It passes every `except Exception` (lines 100, 213, 419); the submenu
\* prints a notice and ends (512-513), the menu loop breaks and show_menu
\* returns (484-486)
UnderMenu == \E h \in 1..Len(stack) : stack[h] \in HandlerFrames

\* a fault: the menu loop treats the interrupt as it treats an Exception, and
\* iterates
Interrupted_Swallowed(lg) ==
  LET h == CHOOSE i \in 1..Len(stack) :
             /\ stack[i] \in HandlerFrames
             /\ \A j \in 1..(i - 1) : stack[j] \notin HandlerFrames
  IN  /\ pc' = ExceptLabel(stack[h])
      /\ stack' = SubSeq(stack, h + 1, Len(stack))
      /\ log' = lg
      /\ UNCHANGED <<retval, outcome>>

Interrupted(lg) ==
  LET h == CHOOSE i \in 1..Len(stack) :
             /\ stack[i] \in HandlerFrames
             /\ \A j \in 1..(i - 1) : stack[j] \notin HandlerFrames
      rest == SubSeq(stack, h + 1, Len(stack))
  IN  IF stack[h] = "show_menu:enter"
      THEN /\ retval' = "None"
           /\ log' = Append(lg, RetEv("show_menu", "None"))
           /\ IF rest = <<>>
              THEN pc' = "done" /\ outcome' = "returned" /\ stack' = <<>>
              ELSE pc' = Head(rest) /\ stack' = Tail(rest) /\ outcome' = outcome
      ELSE /\ pc' = stack[h]
           /\ stack' = rest
           /\ log' = lg
           /\ UNCHANGED <<retval, outcome>>

\* sys.exit(code): SystemExit passes every `except Exception`
Exit(code) ==
  /\ pc' = "done"
  /\ log' = log
  /\ outcome' = "exited"
  /\ stack' = <<>>
  /\ retval' = code

\* self.fn(a), continuing at retLabel, lg being the log so far
CallWith(fn, a, retLabel, lg) ==
  /\ pc' = fn
  /\ stack' = <<retLabel>> \o stack
  /\ arg' = a
  /\ log' = Append(lg, CallEv(fn, a))
  /\ wasRunning' = FALSE
  /\ UNCHANGED <<retval, outcome>>

\* self.fn(a), continuing at retLabel
CallFn(fn, a, retLabel) == CallWith(fn, a, retLabel, log)

\* `not x` for a returned value
Not(v) == v # "True"

Init ==
  /\ pc = "idle"
  /\ stack = <<>>
  /\ op = ""
  /\ argv = {}
  /\ service = ""
  /\ arg = ""
  /\ retval = ""
  /\ outcome = "returned"
  /\ status = EmptyDict
  /\ psResult = NotRun
  /\ structured = EmptyDict
  /\ wasRunning = FALSE
  /\ fileIdx = 1
  /\ portIdx = 1
  /\ log = <<>>

\* methods taking a service argument, and methods taking none
ServiceMethods == {"build_service", "run_service", "stop_service", "remove_service",
                   "run_single_service", "show_logs"}
PlainMethods == {"stop_all_services", "get_service_status", "test_basic_environment",
                 "test_services", "run_all_services", "show_service_status",
                 "check_docker", "check_compose_file", "run_command"}

\* the caller invokes method o with argument s
Invoke(o, s) ==
  /\ pc = "idle"
  /\ pc' = o
  /\ stack' = <<>>
  /\ op' = o
  /\ service' = s
  /\ arg' = s
  /\ retval' = ""
  /\ outcome' = "running"
  /\ status' = EmptyDict
  /\ psResult' = NotRun
  /\ structured' = EmptyDict
  /\ wasRunning' = FALSE
  /\ fileIdx' = 1
  /\ portIdx' = 1
  /\ log' = <<CallEv(o, s)>>

\* the caller holds the result; the frame of the call is gone
Reset ==
  /\ pc = "done"
  /\ pc' = "idle"
  /\ stack' = <<>>
  /\ op' = ""
  /\ argv' = {}
  /\ service' = ""
  /\ arg' = ""
  /\ UNCHANGED <<retval, outcome>>
  /\ status' = EmptyDict
  /\ psResult' = NotRun
  /\ structured' = EmptyDict
  /\ wasRunning' = FALSE
  /\ fileIdx' = 1
  /\ portIdx' = 1
  /\ log' = <<>>

(***************************************************************************)
(* build_service, run_service, stop_service, remove_service (130-188) and  *)
(* stop_all_services (320-333): one compose command each.                  *)
(***************************************************************************)
\* a fault: only a process that could not be spawned counts as a failure
CommandOk_SpawnOnly(returncode) == IF returncode >= 0 THEN "True" ELSE "False"

\* `if returncode == 0: return True else: return False`
CommandOk(returncode) == IF returncode = 0 THEN "True" ELSE "False"

\* the shared body: run one compose subcommand on arg, return by exit code
ComposeStep(label, sub, a) ==
  /\ pc = label
  /\ \E proc \in PlainProcs, up \in BOOLEAN :
       LET r == run_command(TRUE, FALSE, proc) IN
       /\ wasRunning' = up
       /\ Return(label, CommandOk(r.rc), Append(log, CmdEv(sub, a, r.rc)))
  /\ UNCHANGED <<op, argv, service, arg, status, psResult, structured, fileIdx, portIdx>>

\* a fault of design: the key is checked against the registry first
build_service_Validating ==
  IF arg \in RegisteredKeys
  THEN ComposeStep("build_service", "build", arg)
  ELSE /\ pc = "build_service"
       /\ Return("build_service", "False", log)
       /\ UNCHANGED <<op, argv, service, arg, status, psResult, structured,
                      wasRunning, fileIdx, portIdx>>

build_service  == ComposeStep("build_service", "build", arg)
run_service    == ComposeStep("run_service", "up -d", arg)
stop_service   == ComposeStep("stop_service", "stop", arg)
remove_service == ComposeStep("remove_service", "rm -f", arg)
stop_all_services == ComposeStep("stop_all_services", "down --remove-orphans", "")

(***************************************************************************)
(* check_docker (103-120) and check_compose_file (122-128).                *)
(***************************************************************************)
\* a fault: the daemon is asked although the client is not installed
cd_version_Unchecked ==
  /\ pc = "check_docker"
  /\ \E proc \in PlainProcs :
       LET r == run_command(FALSE, FALSE, proc) IN
       /\ log' = Append(log, CmdEv("docker --version", "", r.rc))
       /\ pc' = "check_docker:info"
       /\ UNCHANGED <<stack, retval, outcome>>
  /\ UNCHANGED <<op, argv, service, arg, status, psResult, structured, wasRunning,
                 fileIdx, portIdx>>

\* lines 106-107, 118-120: `docker --version`, check=False
cd_version ==
  /\ pc = "check_docker"
  /\ \E proc \in PlainProcs :
       LET r  == run_command(FALSE, FALSE, proc)
           lg == Append(log, CmdEv("docker --version", "", r.rc))
       IN  IF r.rc = 0
           THEN /\ log' = lg
                /\ pc' = "check_docker:info"
                /\ UNCHANGED <<stack, retval, outcome>>
           ELSE Return("check_docker", "False", lg)
  /\ UNCHANGED <<op, argv, service, arg, status, psResult, structured, wasRunning,
                 fileIdx, portIdx>>

\* lines 111-117: `docker info`, check=False
cd_info ==
  /\ pc = "check_docker:info"
  /\ \E proc \in PlainProcs :
       LET r == run_command(FALSE, FALSE, proc) IN
       Return("check_docker", CommandOk(r.rc), Append(log, CmdEv("docker info", "", r.rc)))
  /\ UNCHANGED <<op, argv, service, arg, status, psResult, structured, wasRunning,
                 fileIdx, portIdx>>

\* lines 124-128: self.compose_file.exists()
check_compose_file ==
  /\ pc = "check_compose_file"
  /\ \E exists \in BOOLEAN :
       Return("check_compose_file", IF exists THEN "True" ELSE "False",
              Append(log, FileEv("compose_file", exists)))
  /\ UNCHANGED <<op, argv, service, arg, status, psResult, structured, wasRunning,
                 fileIdx, portIdx>>

(***************************************************************************)
(* test_basic_environment (335-371).                                       *)
(***************************************************************************)
required_files == <<"docker-compose.dev.yml", "Dockerfile.dev", "pyproject.toml",
                    "nginx.conf">>

\* a fault: a missing file is reported and the loop goes on
tbe_check_file_Lenient ==
  /\ pc = "test_basic_environment"
  /\ \E exists \in BOOLEAN :
       LET lg == Append(log, FileEv(required_files[fileIdx], exists)) IN
       IF fileIdx < Len(required_files)
       THEN /\ fileIdx' = fileIdx + 1
            /\ log' = lg
            /\ UNCHANGED <<pc, stack, retval, outcome>>
       ELSE /\ fileIdx' = 1
            /\ log' = lg
            /\ pc' = "test_basic_environment:config"
            /\ UNCHANGED <<stack, retval, outcome>>
  /\ UNCHANGED <<op, argv, service, arg, status, psResult, structured, wasRunning,
                 portIdx>>

\* one iteration of `for file_path in required_files`
tbe_check_file ==
  /\ pc = "test_basic_environment"
  /\ \E exists \in BOOLEAN :
       LET lg == Append(log, FileEv(required_files[fileIdx], exists)) IN
       IF ~exists
       THEN Return("test_basic_environment", "False", lg) /\ fileIdx' = 1
       ELSE IF fileIdx < Len(required_files)
       THEN /\ fileIdx' = fileIdx + 1
            /\ log' = lg
            /\ UNCHANGED <<pc, stack, retval, outcome>>
       ELSE /\ fileIdx' = 1
            /\ log' = lg
            /\ pc' = "test_basic_environment:config"
            /\ UNCHANGED <<stack, retval, outcome>>
  /\ UNCHANGED <<op, argv, service, arg, status, psResult, structured, wasRunning,
                 portIdx>>

\* `docker compose config`, check=False
tbe_config ==
  /\ pc = "test_basic_environment:config"
  /\ \E proc \in PlainProcs :
       LET r == run_command(FALSE, FALSE, proc) IN
       Return("test_basic_environment", CommandOk(r.rc),
              Append(log, CmdEv("config", "", r.rc)))
  /\ UNCHANGED <<op, argv, service, arg, status, psResult, structured,
                 wasRunning, fileIdx, portIdx>>

(***************************************************************************)
(* get_service_status (190-240).                                           *)
(***************************************************************************)
\* The texts printed by the tool are dead once parsed.  They are kept for
\* the properties when get_service_status is the method the caller invoked,
\* and only the return code is kept when it runs on behalf of another method.
Observed(r) == IF stack = <<>> THEN r ELSE [rc |-> r.rc, stdout |-> "", stderr |-> ""]

\* what the structured attempt gives for each process: the result of
\* run_command and the status parsed from it
JsonResults ==
  { [r  |-> run_command(TRUE, TRUE, proc),
     st |-> ParseJsonStatus(run_command(TRUE, TRUE, proc).rc,
                            run_command(TRUE, TRUE, proc).stdout)] : proc \in JsonProcs }

\* what the text attempt gives for each process when it starts, as it does,
\* from the empty status
TextResults ==
  { [r  |-> run_command(TRUE, TRUE, proc),
     st |-> ParseTextStatus(EmptyDict, run_command(TRUE, TRUE, proc).rc,
                            run_command(TRUE, TRUE, proc).stdout)] : proc \in TextProcs }

\* lines 195-214: the structured attempt, then `if not status`
gss_json ==
  /\ pc = "get_service_status"
  /\ \E x \in JsonResults :
       /\ psResult' = Observed(x.r)
       /\ status' = x.st
       /\ structured' = x.st
       /\ log' = Append(log, CmdEv("ps --format json", "", x.r.rc))
       /\ pc' = IF NeedsFallback(x.st) THEN "get_service_status:text"
                                       ELSE "get_service_status:return"
  /\ UNCHANGED <<stack, op, argv, service, arg, retval, outcome, wasRunning, fileIdx, portIdx>>

\* lines 218-238: the text attempt
gss_text ==
  /\ pc = "get_service_status:text"
  /\ \E x \in TextResults :
       /\ psResult' = Observed(x.r)
       /\ status' = IF status = EmptyDict THEN x.st
                    ELSE ParseTextStatus(status, x.r.rc, x.r.stdout)
       /\ log' = Append(log, CmdEv("ps", "", x.r.rc))
  /\ pc' = "get_service_status:return"
  /\ UNCHANGED <<stack, op, argv, service, arg, retval, outcome, structured, wasRunning,
                 fileIdx, portIdx>>

\* line 240: `return status`; the locals other than the returned dict end
gss_return ==
  /\ pc = "get_service_status:return"
  /\ Return("get_service_status", "dict", log)
  /\ psResult' = NotRun
  /\ structured' = EmptyDict
  /\ UNCHANGED <<op, argv, service, arg, status, wasRunning, fileIdx, portIdx>>

(***************************************************************************)
(* test_services (373-424).                                                *)
(***************************************************************************)
RunningStates == {"up", "running", "started"}

\* a fault: the state is searched as reported, without lower-casing it
IsRunningState_CaseSensitive(state) == \E w \in RunningStates : Contains(state, w)

\* any(running_state in state.lower() for running_state in [...])
IsRunningState(state) == \E w \in RunningStates : Contains(Lower(state), w)

\* state.lower() raises AttributeError when the state is not a str
LowerRaises(st, key) == key \in DOMAIN st /\ st[key] = PyNone

\* the condition of line 385 for one service
ServiceUp(st, key) == key \in DOMAIN st /\ IsRunningState(st[key])

ports == <<"nginx", "page-server", "api-server", "db-server", "redis">>

\* connect_ex result 0, a refusal, a timeout, or an exception while probing
ProbeOutcomes == {0, 111, 11, -1}

ts_start ==
  /\ pc = "test_services"
  /\ CallFn("get_service_status", "", "test_services:status")
  /\ UNCHANGED <<op, argv, service, status, psResult, structured, fileIdx, portIdx>>

\* lines 385-388: the line printed for one service; "[v]", "[x]" and the
\* words stand in ASCII for the marks and the Korean words printed
CheckLine(st, key) ==
  IF ServiceUp(st, key) THEN "[v] " \o key \o " siljung" ELSE "[x] " \o key \o " silpae"

\* the for loop of line 384 from the i-th service on; it ends where
\* status[service].lower() raises
RECURSIVE CheckLines(_, _)
CheckLines(st, i) ==
  IF i > Len(ServiceKeys) \/ LowerRaises(st, ServiceKeys[i]) THEN <<>>
  ELSE <<[k |-> "print", f |-> ServiceKeys[i], a |-> CheckLine(st, ServiceKeys[i]), rc |-> 0]>>
         \o CheckLines(st, i + 1)

\* lines 382-393: the loop over the registry and `if not all_running`
ts_eval ==
  /\ pc = "test_services:status"
  /\ IF \E key \in RegisteredKeys : LowerRaises(status, key)
     THEN Raise(log \o CheckLines(status, 1))
     ELSE IF \A key \in RegisteredKeys : ServiceUp(status, key)
     THEN /\ pc' = "test_services:ports"
          /\ log' = log \o CheckLines(status, 1)
          /\ UNCHANGED <<stack, retval, outcome>>
     ELSE Return("test_services", "False", log \o CheckLines(status, 1))
  /\ UNCHANGED <<op, argv, service, arg, status, psResult, structured, wasRunning,
                 fileIdx, portIdx>>

\* The outcome of a probe only selects the line printed for the port.  The
\* log keeps it when test_services is the method the caller invoked, and
\* records only that the port was probed (as 0) when it runs on behalf of
\* another method.
ObservedProbe(result) == IF stack = <<>> THEN result ELSE 0

\* a fault: a port that does not connect ends the check with False
ts_probe_Failing ==
  /\ pc = "test_services:ports"
  /\ \E result \in ProbeOutcomes :
       LET lg == Append(log, ProbeEv(ports[portIdx], ObservedProbe(result))) IN
       IF result # 0
       THEN portIdx' = 1 /\ Return("test_services", "False", lg)
       ELSE IF portIdx < Len(ports)
       THEN portIdx' = portIdx + 1 /\ log' = lg /\ UNCHANGED <<pc, stack, retval, outcome>>
       ELSE portIdx' = 1 /\ Return("test_services", "True", lg)
  /\ UNCHANGED <<op, argv, service, arg, status, psResult, structured, wasRunning,
                 fileIdx>>

\* one iteration of `for port, service_name in ports.items()`
ts_probe ==
  /\ pc = "test_services:ports"
  /\ \E result \in ProbeOutcomes :
       LET lg == Append(log, ProbeEv(ports[portIdx], ObservedProbe(result))) IN
       IF portIdx < Len(ports)
       THEN portIdx' = portIdx + 1 /\ log' = lg /\ UNCHANGED <<pc, stack, retval, outcome>>
       ELSE portIdx' = 1 /\ Return("test_services", "True", lg)
  /\ UNCHANGED <<op, argv, service, arg, status, psResult, structured, wasRunning,
                 fileIdx>>

(***************************************************************************)
(* show_service_status (242-258).  The status lines it prints are logged;  *)
(* the marks and the Korean word stand in ASCII for the printed ones:      *)
(* "[v]" for the check mark, "[x]" for the cross mark, "[||]" for the      *)
(* pause sign and "jungjidoem" for the word printed for an absent service. *)
(***************************************************************************)
PrintEv(key, line) == [k |-> "print", f |-> key, a |-> line, rc |-> 0]

\* a fault: a service that is reported but not running is printed as absent
StatusLine_StoppedAlike(st, key) ==
  IF key \in DOMAIN st /\ IsRunningState(st[key])
  THEN "[v] " \o services[key] \o ": " \o st[key]
  ELSE "[||] " \o services[key] \o ": jungjidoem"

\* lines 249-257: the line printed for one registered service
StatusLine(st, key) ==
  IF key \in DOMAIN st
  THEN IF IsRunningState(st[key])
       THEN "[v] " \o services[key] \o ": " \o st[key]
       ELSE "[x] " \o services[key] \o ": " \o st[key]
  ELSE "[||] " \o services[key] \o ": jungjidoem"

\* the for loop of line 248 from the i-th service on; state.lower() raises
\* for a state that is not a str and the loop ends there
RECURSIVE StatusLines(_, _)
StatusLines(st, i) ==
  IF i > Len(ServiceKeys) \/ LowerRaises(st, ServiceKeys[i]) THEN <<>>
  ELSE <<PrintEv(ServiceKeys[i], StatusLine(st, ServiceKeys[i]))>> \o StatusLines(st, i + 1)

sss_start ==
  /\ pc = "show_service_status"
  /\ CallFn("get_service_status", "", "show_service_status:status")
  /\ UNCHANGED <<op, argv, service, status, psResult, structured, fileIdx, portIdx>>

\* lines 246-258; the method returns None
sss_render ==
  /\ pc = "show_service_status:status"
  /\ IF \E key \in RegisteredKeys : LowerRaises(status, key)
     THEN Raise(log \o StatusLines(status, 1))
     ELSE Return("show_service_status", "None", log \o StatusLines(status, 1))
  /\ UNCHANGED <<op, argv, service, arg, status, psResult, structured, wasRunning,
                 fileIdx, portIdx>>

(***************************************************************************)
(* run_all_services (260-288).                                             *)
(***************************************************************************)
Frame == <<op, argv, service, status, psResult, structured, fileIdx, portIdx>>

ras_start ==
  /\ pc = "run_all_services"
  /\ CallFn("test_basic_environment", "", "run_all_services:env")
  /\ UNCHANGED Frame

ras_after_env ==
  /\ pc = "run_all_services:env"
  /\ IF Not(retval)
     THEN Return("run_all_services", "False", log) /\ UNCHANGED <<arg, wasRunning>>
     ELSE CallFn("build_service", "", "run_all_services:build")
  /\ UNCHANGED Frame

\* a fault: the result of build_service is not looked at
ras_after_build_Unchecked ==
  /\ pc = "run_all_services:build"
  /\ CallFn("run_service", "", "run_all_services:start")
  /\ UNCHANGED Frame

ras_after_build ==
  /\ pc = "run_all_services:build"
  /\ IF Not(retval)
     THEN Return("run_all_services", "False", log) /\ UNCHANGED <<arg, wasRunning>>
     ELSE CallFn("run_service", "", "run_all_services:start")
  /\ UNCHANGED Frame

ras_after_start ==
  /\ pc = "run_all_services:start"
  /\ IF Not(retval)
     THEN Return("run_all_services", "False", log) /\ UNCHANGED <<arg, wasRunning>>
     ELSE CallFn("test_services", "", "run_all_services:test")
  /\ UNCHANGED Frame

\* a fault: a False of test_services becomes the result of the workflow
ras_after_test_Strict ==
  /\ pc = "run_all_services:test"
  /\ Return("run_all_services", IF Not(retval) THEN "False" ELSE "True", log)
  /\ UNCHANGED <<arg, wasRunning>>
  /\ UNCHANGED Frame

\* lines 284-288: the result of test_services only selects a warning
ras_after_test ==
  /\ pc = "run_all_services:test"
  /\ Return("run_all_services", "True", log)
  /\ UNCHANGED <<arg, wasRunning>>
  /\ UNCHANGED Frame

(***************************************************************************)
(* run_single_service (290-318).                                           *)
(***************************************************************************)
\* a fault: the key is not checked against the registry
rss_start_Unchecked ==
  /\ pc = "run_single_service"
  /\ CallFn("test_basic_environment", "", "run_single_service:env")
  /\ UNCHANGED Frame

rss_start ==
  /\ pc = "run_single_service"
  /\ IF service \notin DOMAIN services
     THEN Return("run_single_service", "False", log) /\ UNCHANGED <<arg, wasRunning>>
     ELSE CallFn("test_basic_environment", "", "run_single_service:env")
  /\ UNCHANGED Frame

\* a fault: the result of test_basic_environment is not looked at
rss_after_env_Unchecked ==
  /\ pc = "run_single_service:env"
  /\ CallFn("build_service", service, "run_single_service:build")
  /\ UNCHANGED Frame

rss_after_env ==
  /\ pc = "run_single_service:env"
  /\ IF Not(retval)
     THEN Return("run_single_service", "False", log) /\ UNCHANGED <<arg, wasRunning>>
     ELSE CallFn("build_service", service, "run_single_service:build")
  /\ UNCHANGED Frame

rss_after_build ==
  /\ pc = "run_single_service:build"
  /\ IF Not(retval)
     THEN Return("run_single_service", "False", log) /\ UNCHANGED <<arg, wasRunning>>
     ELSE CallFn("run_service", service, "run_single_service:start")
  /\ UNCHANGED Frame

rss_after_start ==
  /\ pc = "run_single_service:start"
  /\ IF Not(retval)
     THEN Return("run_single_service", "False", log) /\ UNCHANGED <<arg, wasRunning>>
     ELSE CallFn("test_services", "", "run_single_service:test")
  /\ UNCHANGED Frame

\* lines 315-318
rss_after_test ==
  /\ pc = "run_single_service:test"
  /\ Return("run_single_service", "True", log)
  /\ UNCHANGED <<arg, wasRunning>>
  /\ UNCHANGED Frame

(***************************************************************************)
(* run_command (81-101) called by itself, with each value of check and of  *)
(* capture_output.                                                         *)
(***************************************************************************)
\* the keyword arguments as they are written in a call
Keywords(check, capture_output) ==
  (IF check THEN "check=True" ELSE "check=False") \o ", " \o
  (IF capture_output THEN "capture_output=True" ELSE "capture_output=False")

\* the call and what became of the process: f is "spawn" when subprocess.run
\* raised before there was a process, "exit" otherwise
RunEv(proc, check, capture_output) ==
  [k |-> "run", f |-> IF proc.spawnError THEN "spawn" ELSE "exit",
   a |-> Keywords(check, capture_output), rc |-> proc.code]

\* processes that fail, and one that prints
RunProcs == PlainProcs \cup { Proc(FALSE, 0, "success", "") }

rc_run ==
  /\ pc = "run_command"
  /\ \E proc \in RunProcs, check \in BOOLEAN, capture_output \in BOOLEAN :
       /\ psResult' = run_command(check, capture_output, proc)
       /\ Return("run_command", "tuple", Append(log, RunEv(proc, check, capture_output)))
  /\ UNCHANGED <<op, argv, service, arg, status, structured, wasRunning, fileIdx, portIdx>>

(***************************************************************************)
(* show_logs (426-442).                                                    *)
(***************************************************************************)
\* processes answering `logs --tail=20`
LogProcs == PlainProcs \cup { Proc(FALSE, 0, "api-server-1  | started", "") }

ShowEv(what, text) == [k |-> "show", f |-> what, a |-> text, rc |-> 0]

\* the output is printed when there is one, a notice otherwise ("[x] no logs"
\* stands for the printed Korean notice); the method returns None
show_logs ==
  /\ pc = "show_logs"
  /\ \E proc \in LogProcs :
       LET r == run_command(TRUE, TRUE, proc)
           shown == IF r.rc = 0 /\ Truthy(r.stdout) THEN r.stdout ELSE "[x] no logs"
       IN  Return("show_logs", "None",
                  log \o <<CmdEv("logs --tail=20", arg, r.rc), ShowEv("logs", shown)>>)
  /\ UNCHANGED <<op, argv, service, arg, status, psResult, structured, wasRunning,
                 fileIdx, portIdx>>

(***************************************************************************)
(* The prompts: input() gives a line, or raises KeyboardInterrupt, or      *)
(* raises EOFError at the end of the input.                                *)
(***************************************************************************)
KeyboardInterrupt == "<KeyboardInterrupt>"
EOFError == "<EOFError>"

InputEv(who, line) == [k |-> "input", f |-> who, a |-> line, rc |-> 0]

MenuInputs == {"0", "1", "2", "3", "4", "5", "6", "7", " 4 ", "", KeyboardInterrupt, EOFError}

SubmenuInputs ==
  {"0", "1", "2", "3", "4", "5", "6", "03", " 2", "x", "", KeyboardInterrupt, EOFError}

EnterInputs == {"", KeyboardInterrupt, EOFError}

Digits == "0123456789"

\* str.isdigit() for the ASCII strings of the model
IsDigit(s) == s # "" /\ \A i \in 1..Len(s) : FindFrom(Digits, CharAt(s, i), 1) # 0

\* int(s) for a string of digits
RECURSIVE ParseInt(_, _, _)
ParseInt(s, i, acc) ==
  IF i > Len(s) THEN acc
  ELSE ParseInt(s, i + 1, acc * 10 + (FindFrom(Digits, CharAt(s, i), 1) - 1))

(***************************************************************************)
(* show_service_selection_menu (490-515).                                  *)
(***************************************************************************)
submenu_choose ==
  /\ pc = "show_service_selection_menu"
  /\ \E inp \in SubmenuInputs :
       LET lg == Append(log, InputEv("show_service_selection_menu", inp))
           choice == Strip(inp)
       IN  IF inp \in {KeyboardInterrupt, EOFError} \/ choice = "0"
           THEN /\ Return("show_service_selection_menu", "None", lg)
                /\ UNCHANGED <<service, arg, wasRunning>>
           ELSE IF IsDigit(choice) /\ 1 <= ParseInt(choice, 1, 0) /\ ParseInt(choice, 1, 0) <= 5
           THEN /\ service' = ServiceKeys[ParseInt(choice, 1, 0)]
                /\ CallWith("run_single_service", ServiceKeys[ParseInt(choice, 1, 0)],
                            "show_service_selection_menu:done", lg)
           ELSE /\ Return("show_service_selection_menu", "None", lg)
                /\ UNCHANGED <<service, arg, wasRunning>>
  /\ UNCHANGED <<op, argv, status, psResult, structured, fileIdx, portIdx>>

\* after run_single_service, or after the handler of `except Exception`
submenu_done ==
  /\ pc = "show_service_selection_menu:done"
  /\ Return("show_service_selection_menu", "None", log)
  /\ UNCHANGED <<op, argv, service, arg, status, psResult, structured, wasRunning,
                 fileIdx, portIdx>>

(***************************************************************************)
(* show_menu (444-488).                                                    *)
(***************************************************************************)
\* a fault: the choices 5 and 6 are exchanged
MenuOperation_Exchanged(choice) ==
  CASE choice = "1" -> "run_all_services"
    [] choice = "2" -> "show_service_selection_menu"
    [] choice = "3" -> "show_service_status"
    [] choice = "4" -> "test_services"
    [] choice = "5" -> "stop_all_services"
    [] choice = "6" -> "show_logs"
    [] OTHER        -> ""

\* the operation of a menu choice, "" when the choice has none
MenuOperation(choice) ==
  CASE choice = "1" -> "run_all_services"
    [] choice = "2" -> "show_service_selection_menu"
    [] choice = "3" -> "show_service_status"
    [] choice = "4" -> "test_services"
    [] choice = "5" -> "show_logs"
    [] choice = "6" -> "stop_all_services"
    [] OTHER        -> ""

\* the position in the log of the call of show_menu
MenuCall == CHOOSE i \in 1..Len(log) : log[i].k = "call" /\ log[i].f = "show_menu"

\* `while True:` once more.  The locals of the iteration that ended are gone,
\* and the log is cut back to the call of show_menu.
NextIteration ==
  /\ pc' = "show_menu"
  /\ log' = SubSeq(log, 1, MenuCall)
  /\ service' = ""
  /\ arg' = ""
  /\ retval' = ""
  /\ status' = EmptyDict
  /\ psResult' = NotRun
  /\ structured' = EmptyDict
  /\ wasRunning' = FALSE
  /\ fileIdx' = 1
  /\ portIdx' = 1
  /\ UNCHANGED <<stack, op, argv, outcome>>

\* lines 460-478: the choice is read and its operation called
menu_choose ==
  /\ pc = "show_menu"
  /\ \E inp \in MenuInputs :
       LET lg == Append(log, InputEv("show_menu", inp))
           choice == Strip(inp)
       IN  IF inp = KeyboardInterrupt \/ (inp # EOFError /\ choice = "0")
           THEN /\ Return("show_menu", "None", lg)
                /\ UNCHANGED <<service, arg, wasRunning>>
           ELSE IF inp = EOFError
           THEN /\ pc' = "show_menu:except"
                /\ log' = lg
                /\ UNCHANGED <<stack, retval, outcome, service, arg, wasRunning>>
           ELSE IF MenuOperation(choice) # ""
           THEN /\ CallWith(MenuOperation(choice), "", "show_menu:enter", lg)
                /\ service' = ""
           ELSE /\ pc' = "show_menu:enter"
                /\ log' = lg
                /\ UNCHANGED <<stack, retval, outcome, service, arg, wasRunning>>
  /\ UNCHANGED <<op, argv, status, psResult, structured, fileIdx, portIdx>>

\* lines 480-482: the Enter prompt after a choice other than "0"
menu_enter ==
  /\ pc = "show_menu:enter"
  /\ \E inp \in EnterInputs :
       IF inp = KeyboardInterrupt
       THEN /\ Return("show_menu", "None", Append(log, InputEv("show_menu", inp)))
            /\ UNCHANGED <<op, argv, service, arg, status, psResult, structured,
                           wasRunning, fileIdx, portIdx>>
       ELSE NextIteration

\* a fault: the handler of `except Exception` ends the loop
menu_except_Ends ==
  /\ pc = "show_menu:except"
  /\ Return("show_menu", "None", log)
  /\ UNCHANGED <<op, argv, service, arg, status, psResult, structured, wasRunning,
                 fileIdx, portIdx>>

\* lines 487-488: `except Exception`, then the next iteration
menu_except ==
  /\ pc = "show_menu:except"
  /\ NextIteration

(***************************************************************************)
(* The operator's interrupt (Ctrl-C) while an operation that the           *)
(* interactive menu dispatched waits for an external process or for a      *)
(* connection.  The interrupt of a run that was started otherwise ends the *)
(* process and is not part of the model.                                   *)
(***************************************************************************)
IntEv(label) == [k |-> "interrupt", f |-> label, a |-> "", rc |-> 0]

\* the statements that wait: subprocess.run (86-95) under each caller of
\* run_command, and connect_ex (412)
Waiting ==
  {"build_service", "run_service", "stop_service", "remove_service", "stop_all_services",
   "check_docker", "check_docker:info", "test_basic_environment:config",
   "get_service_status", "get_service_status:text", "test_services:ports", "show_logs"}

interrupt ==
  /\ pc \in Waiting
  /\ UnderMenu
  /\ Interrupted(Append(log, IntEv(pc)))
  /\ UNCHANGED <<op, argv, service, arg, status, psResult, structured, wasRunning,
                 fileIdx, portIdx>>

(***************************************************************************)
(* main (517-580).                                                         *)
(***************************************************************************)
Flags == {"--all", "--page-server", "--api-server", "--db-server", "--nginx", "--redis",
          "--stop", "--status", "--logs"}

\* command lines: no flag, one flag, two flags
FlagSets == {{}} \cup {{f, g} : f, g \in Flags}

\* the options of the usage text (lines 14-25) that the parser does not
\* declare, and --help, which argparse declares by itself
Undeclared == {"--test"}
Help == "--help"

\* the command lines the program is started with
CommandLines == FlagSets \cup {{u} : u \in Undeclared} \cup {{"--all", u} : u \in Undeclared}
                  \cup {{Help}}

\* the flags of the services given, in the order of the elif chain (561-570)
ServiceFlagsGiven(given) ==
  SelectSeq(ServiceKeys, LAMBDA key : ("--" \o key) \in given)

\* a fault: a command line with several flags falls through to the menu
Dispatch_MenuOnConflict(given) ==
  IF Cardinality(given) > 1 THEN [fn |-> "show_menu", a |-> ""]
  ELSE IF "--all" \in given THEN [fn |-> "run_all_services", a |-> ""]
  ELSE IF ServiceFlagsGiven(given) # <<>>
  THEN [fn |-> "run_single_service", a |-> ServiceFlagsGiven(given)[1]]
  ELSE IF "--stop" \in given THEN [fn |-> "stop_all_services", a |-> ""]
  ELSE IF "--status" \in given THEN [fn |-> "show_service_status", a |-> ""]
  ELSE IF "--logs" \in given THEN [fn |-> "show_logs", a |-> ""]
  ELSE [fn |-> "show_menu", a |-> ""]

\* lines 559-580: the operation the if/elif chain selects, and its argument
Dispatch(given) ==
  IF "--all" \in given THEN [fn |-> "run_all_services", a |-> ""]
  ELSE IF ServiceFlagsGiven(given) # <<>>
  THEN [fn |-> "run_single_service", a |-> ServiceFlagsGiven(given)[1]]
  ELSE IF "--stop" \in given THEN [fn |-> "stop_all_services", a |-> ""]
  ELSE IF "--status" \in given THEN [fn |-> "show_service_status", a |-> ""]
  ELSE IF "--logs" \in given THEN [fn |-> "show_logs", a |-> ""]
  ELSE [fn |-> "show_menu", a |-> ""]

\* lines 543-549: parse_args() prints the help and exits with 0 for --help,
\* reports an option that is not declared and exits with 2; then the first
\* pre-flight check
main_start ==
  /\ pc = "main"
  /\ IF Help \in argv
     THEN Exit("0") /\ UNCHANGED <<arg, wasRunning>>
     ELSE IF ~(argv \subseteq Flags)
     THEN Exit("2") /\ UNCHANGED <<arg, wasRunning>>
     ELSE CallFn("check_docker", "", "main:docker")
  /\ UNCHANGED Frame

\* lines 549-554
main_after_docker ==
  /\ pc = "main:docker"
  /\ IF Not(retval)
     THEN Exit("1") /\ UNCHANGED <<arg, wasRunning>>
     ELSE CallFn("check_compose_file", "", "main:compose")
  /\ UNCHANGED Frame

\* lines 554-580; `args` is not read after the if/elif chain, and the model
\* lets the flags go with the dispatch
main_after_compose ==
  /\ pc = "main:compose"
  /\ IF Not(retval)
     THEN Exit("1") /\ UNCHANGED <<arg, wasRunning, service, argv>>
     ELSE /\ CallFn(Dispatch(argv).fn, Dispatch(argv).a, "main:end")
          /\ service' = Dispatch(argv).a
          /\ argv' = {}
  /\ UNCHANGED <<op, status, psResult, structured, fileIdx, portIdx>>

\* main returns; the interpreter ends with status 0
main_end ==
  /\ pc = "main:end"
  /\ Return("main", "None", log)
  /\ UNCHANGED <<arg, wasRunning>>
  /\ UNCHANGED Frame

(***************************************************************************)
(* The caller, and the specification.                                      *)
(***************************************************************************)
InvokeService == \E o \in ServiceMethods, s \in ServiceArgs : Invoke(o, s) /\ argv' = {}

InvokePlain == \E o \in PlainMethods : Invoke(o, "") /\ argv' = {}

\* the program is started with a command line
InvokeMain == \E given \in CommandLines : Invoke("main", "") /\ argv' = given

\* the status the process ends with when main was started (lines 583-584):
\* the argument of sys.exit, 1 after an exception that nothing caught, 0
\* when main returned
ExitStatus ==
  IF outcome = "exited" THEN retval
  ELSE IF outcome = "raised" THEN "1"
  ELSE "0"

Next ==
  \/ InvokeService
  \/ InvokePlain
  \/ InvokeMain
  \/ Reset
  \/ interrupt
  \/ rc_run
  \/ build_service
  \/ run_service
  \/ stop_service
  \/ remove_service
  \/ stop_all_services
  \/ cd_version
  \/ cd_info
  \/ check_compose_file
  \/ tbe_check_file
  \/ tbe_config
  \/ gss_json
  \/ gss_text
  \/ gss_return
  \/ ts_start
  \/ ts_eval
  \/ ts_probe
  \/ sss_start
  \/ sss_render
  \/ ras_start
  \/ ras_after_env
  \/ ras_after_build
  \/ ras_after_start
  \/ ras_after_test
  \/ rss_start
  \/ rss_after_env
  \/ rss_after_build
  \/ rss_after_start
  \/ rss_after_test
  \/ show_logs
  \/ submenu_choose
  \/ submenu_done
  \/ menu_choose
  \/ menu_enter
  \/ menu_except
  \/ main_start
  \/ main_after_docker
  \/ main_after_compose
  \/ main_end

Spec == Init /\ [][Next]_vars

(***************************************************************************)
(* Vocabulary of the properties.                                           *)
(***************************************************************************)
Workflows == {"run_all_services", "run_single_service"}

\* a workflow that passes its key check is running or has run
InWorkflow == op = "run_all_services" \/ (op = "run_single_service" /\ service \in RegisteredKeys)

\* the service argument a workflow hands to build and start
WorkflowArg == IF op = "run_all_services" THEN "" ELSE service

Indices(lg) == 1..Len(lg)

IsCall(e, fn) == e.k = "call" /\ e.f = fn
IsRet(e, fn, v) == e.k = "ret" /\ e.f = fn /\ e.a = v
IsExternal(e) == e.k \in {"cmd", "exists", "probe"}

Called(fn) == \E i \in Indices(log) : IsCall(log[i], fn)
Returned(fn, v) == \E i \in Indices(log) : IsRet(log[i], fn, v)

\* the compose commands issued with subcommand sub
Cmds(sub) == {i \in Indices(log) : log[i].k = "cmd" /\ log[i].f = sub}

Finished == pc = "done"

(***************************************************************************)
(* C1: in run_all_services and run_single_service (registered key), once   *)
(* test_basic_environment has returned False nothing else happens: no      *)
(* build_service, no run_service, no external command, file check or probe *)
(* after that return, and the workflow returns False.                      *)
(***************************************************************************)
C1_EnvFailureAborts ==
  InWorkflow =>
    \A i \in Indices(log) :
      IsRet(log[i], "test_basic_environment", "False") =>
        /\ \A j \in Indices(log) : j > i =>
             /\ ~IsExternal(log[j])
             /\ ~IsCall(log[j], "build_service")
             /\ ~IsCall(log[j], "run_service")
             /\ log[j].k # "call"
        /\ Finished => (outcome = "returned" /\ retval = "False")
        /\ ~Finished => pc = op \o ":env"

C1_Witness ==
  /\ Finished
  /\ op = "run_single_service"
  /\ service = "api-server"
  /\ Returned("test_basic_environment", "False")
  /\ Cmds("config") # {}
  /\ retval = "False"

(***************************************************************************)
(* C2: the calls a workflow makes are a prefix of environment check,       *)
(* build(arg), start(arg), post-start check, so each happens at most once  *)
(* and in this order; after build or start returned False no later step    *)
(* is called and the workflow returns False; a workflow that returns True  *)
(* has made all four calls, build and start with the same argument.        *)
(***************************************************************************)
WorkflowSteps == {"test_basic_environment", "build_service", "run_service", "test_services"}

StepCalls == SelectSeq(log, LAMBDA e : e.k = "call" /\ e.f \in WorkflowSteps)

ExpectedSteps ==
  << CallEv("test_basic_environment", ""), CallEv("build_service", WorkflowArg),
     CallEv("run_service", WorkflowArg), CallEv("test_services", "") >>

C2_StepOrder ==
  InWorkflow =>
    /\ Len(StepCalls) <= Len(ExpectedSteps)
    /\ StepCalls = SubSeq(ExpectedSteps, 1, Len(StepCalls))
    /\ Returned("build_service", "False") =>
         /\ ~Called("run_service") /\ ~Called("test_services")
         /\ Finished => (outcome = "returned" /\ retval = "False")
    /\ Returned("run_service", "False") =>
         /\ ~Called("test_services")
         /\ Finished => (outcome = "returned" /\ retval = "False")
    /\ (Finished /\ outcome = "returned" /\ retval = "True") =>
         /\ StepCalls = ExpectedSteps
         /\ Cardinality(Cmds("build")) = 1
         /\ Cardinality(Cmds("up -d")) = 1
         /\ \A i \in Cmds("build") \cup Cmds("up -d") : log[i].a = WorkflowArg

C2_Witness ==
  /\ Finished
  /\ op = "run_all_services"
  /\ outcome = "returned"
  /\ retval = "True"
  /\ Len(StepCalls) = 4
  /\ Returned("test_services", "False")

(***************************************************************************)
(* C3: a workflow whose environment check passed and whose build and start *)
(* commands exited with code 0 returns True.                               *)
(***************************************************************************)
BuildAndStartOk ==
  /\ Returned("test_basic_environment", "True")
  /\ \E i \in Cmds("build") : log[i].rc = 0
  /\ \E i \in Cmds("up -d") : log[i].rc = 0

C3_SuccessWhateverTheCheck ==
  (InWorkflow /\ Finished /\ BuildAndStartOk) => (outcome = "returned" /\ retval = "True")

(***************************************************************************)
(* C4: run_single_service with a key outside the registry returns False    *)
(* and does nothing else: no environment check, no build, no start, no     *)
(* external command.                                                       *)
(***************************************************************************)
C4_UnknownKeyRejected ==
  (op = "run_single_service" /\ service \notin RegisteredKeys) =>
    /\ \A i \in Indices(log) : ~IsExternal(log[i])
    /\ \A i \in Indices(log) : log[i].k = "call" => i = 1
    /\ Finished =>
         /\ outcome = "returned"
         /\ retval = "False"
         /\ log = << CallEv("run_single_service", service),
                     RetEv("run_single_service", "False") >>

C4_Witness ==
  /\ Finished
  /\ op = "run_single_service"
  /\ service = "test-service"
  /\ retval = "False"

(***************************************************************************)
(* C5 as stated: build_service, run_service and stop_service called with a *)
(* key that is not registered return False without a compose command.      *)
(***************************************************************************)
KeyedCommands == {"build_service", "run_service", "stop_service"}

Subcommand(fn) ==
  CASE fn = "build_service"     -> "build"
    [] fn = "run_service"       -> "up -d"
    [] fn = "stop_service"      -> "stop"
    [] fn = "remove_service"    -> "rm -f"
    [] fn = "stop_all_services" -> "down --remove-orphans"

UnknownKey == service \notin RegisteredKeys /\ service # ""

C5_UnknownKeyRejectedByCommands ==
  (op \in KeyedCommands /\ UnknownKey) =>
    /\ \A i \in Indices(log) : log[i].k # "cmd"
    /\ Finished => retval = "False"

(***************************************************************************)
(* C5 amended: build_service, run_service and stop_service do not look at  *)
(* the registry: with a key that is not registered they issue their one    *)
(* compose command with that key and return True iff it exits with 0.      *)
(***************************************************************************)
C5_UnknownKeyPassedThrough ==
  (op \in KeyedCommands /\ UnknownKey /\ Finished) =>
    /\ outcome = "returned"
    /\ Len(log) = 3
    /\ log[2].k = "cmd" /\ log[2].f = Subcommand(op) /\ log[2].a = service
    /\ retval = "True" <=> log[2].rc = 0
    /\ retval = "False" <=> log[2].rc # 0

C5_Witness ==
  /\ Finished
  /\ op = "build_service"
  /\ service = "test-service"
  /\ retval = "True"
  /\ Cmds("build") # {}

(***************************************************************************)
(* C6: build_service, run_service, stop_service, remove_service and        *)
(* stop_all_services issue exactly one compose command and return True     *)
(* when it exits with 0 and False otherwise (non-zero exit, or the process *)
(* could not be spawned); they never raise; whether the target was running *)
(* before the call plays no part.                                          *)
(***************************************************************************)
CommandMethods == KeyedCommands \cup {"remove_service", "stop_all_services"}

C6_TrueIffExitZero ==
  (op \in CommandMethods /\ Finished) =>
    /\ outcome = "returned"
    /\ Cardinality({i \in Indices(log) : log[i].k = "cmd"}) = 1
    /\ \A i \in Indices(log) : log[i].k = "cmd" =>
         /\ log[i].f = Subcommand(op)
         /\ log[i].rc = 0 => retval = "True"
         /\ log[i].rc # 0 => retval = "False"

C6_Witness ==
  /\ Finished
  /\ op = "stop_service"
  /\ service = "redis"
  /\ ~wasRunning
  /\ retval = "True"
  /\ \E i \in Cmds("stop") : log[i].rc = 0

(***************************************************************************)
(* C7: when `ps --format json` exits with 0 and prints the one line        *)
(* [{"Service":"page-server","State":"Up"}], the mapping that              *)
(* get_service_status returns has "page-server" -> "Up".                   *)
(***************************************************************************)
\* get_service_status, called by the caller itself, is about to return
AtReturn == pc = "get_service_status:return" /\ stack = <<>>

\* the position in the log of the call of get_service_status in progress
GssCall ==
  CHOOSE i \in Indices(log) :
    /\ IsCall(log[i], "get_service_status")
    /\ \A j \in Indices(log) : IsCall(log[j], "get_service_status") => j <= i

TextIssued == \E j \in Cmds("ps") : j > GssCall

\* the structured attempt of a call made by the caller itself is over and
\* psResult still holds what `ps --format json` gave
AfterStructured ==
  /\ pc \in {"get_service_status:text", "get_service_status:return"}
  /\ stack = <<>>
  /\ ~TextIssued

HasPageUp(st) == "page-server" \in DOMAIN st /\ st["page-server"] = "Up"

\* whichever way the method reaches its return statement after that output,
\* the mapping it is about to return has the entry
C7_ArrayOutputParsed ==
  [][ (AfterStructured /\ psResult.rc = 0 /\ psResult.stdout = JL_Array) =>
        IF pc = "get_service_status:return"
          THEN HasPageUp(status)
          ELSE pc' = "get_service_status:return" => HasPageUp(status') ]_vars

(***************************************************************************)
(* C8: in the structured path every line counts on its own: each line that *)
(* holds an object with a non-empty Service has its Service -> State entry *)
(* in the result of the structured attempt (the last such line of a        *)
(* service gives the state), whatever the other lines are.                 *)
(***************************************************************************)
JsonLines == SplitLines(Strip(psResult.stdout))

RecordAt(i) == JsonLoads(Strip(JsonLines[i]))

IsRecordLine(i) ==
  /\ RecordAt(i).kind = "object"
  /\ RecordAt(i).hasService
  /\ Truthy(RecordAt(i).Service)

LastLineOf(i) ==
  \A j \in Indices(JsonLines) :
    (j > i /\ IsRecordLine(j)) => RecordAt(j).Service # RecordAt(i).Service

C8_LinesParsedIndependently ==
  (AfterStructured /\ psResult.rc = 0 /\ Truthy(psResult.stdout)) =>
    \A i \in Indices(JsonLines) :
      (IsRecordLine(i) /\ LastLineOf(i)) =>
        /\ RecordAt(i).Service \in DOMAIN structured
        /\ structured[RecordAt(i).Service] = DictGet(RecordAt(i).hasState, RecordAt(i).State)

(***************************************************************************)
(* C9: get_service_status issues the text `ps` command exactly when the    *)
(* structured attempt left no entry; when the structured attempt left at   *)
(* least one entry, `ps` is not issued and those entries are the result.   *)
(***************************************************************************)
C9_FallbackIffNoEntry ==
  /\ pc = "get_service_status:text" => (DOMAIN structured = {} /\ ~TextIssued)
  /\ pc = "get_service_status:return" =>
       /\ TextIssued <=> DOMAIN structured = {}
       /\ Cardinality({j \in Cmds("ps --format json") : j > GssCall}) = 1
       /\ Cardinality({j \in Cmds("ps") : j > GssCall}) <= 1
       /\ DOMAIN structured # {} => status = structured

C9_Witness ==
  /\ AtReturn
  /\ TextIssued
  /\ DOMAIN structured = {}
  /\ psResult.rc = 0
  /\ DOMAIN status = {"adminer-1"}

(***************************************************************************)
(* C10: in the text fallback the first line of the output (the header;     *)
(* the output is stripped of surrounding whitespace first) gives nothing;  *)
(* a later non-blank line of at least two tokens gives an entry exactly    *)
(* when "Up", "Running" or "Started" occurs somewhere in it, under the     *)
(* alias of its first token when the alias table has one and under the     *)
(* first token itself otherwise; every value is "Up".                      *)
(***************************************************************************)
TextLines == SplitLines(Strip(psResult.stdout))

GivesEntry(i) ==
  /\ i > 1
  /\ Strip(TextLines[i]) # ""
  /\ Len(SplitWs(TextLines[i])) >= 2
  /\ \/ Contains(TextLines[i], "Up")
     \/ Contains(TextLines[i], "Running")
     \/ Contains(TextLines[i], "Started")

EntryKey(i) ==
  LET first == SplitWs(TextLines[i])[1] IN
  IF first \in DOMAIN service_mapping THEN service_mapping[first] ELSE first

C10_TextFallbackEntries ==
  (AtReturn /\ TextIssued /\ psResult.rc = 0 /\ Truthy(psResult.stdout)) =>
    /\ DOMAIN status = {EntryKey(i) : i \in {j \in Indices(TextLines) : GivesEntry(j)}}
    /\ \A key \in DOMAIN status : status[key] = "Up"

C10_Witness ==
  /\ AtReturn
  /\ TextIssued
  /\ psResult.rc = 0
  /\ psResult.stdout = TL_PageUp \o "\n" \o TL_PageUp
  /\ DOMAIN status = {"page-server"}

(***************************************************************************)
(* C11: for every output of the tool the keys of the mapping returned by   *)
(* get_service_status are keys of the registry.                            *)
(***************************************************************************)
C11_KeysInRegistry == AtReturn => DOMAIN status \subseteq RegisteredKeys

\* the names the tool reported in the output that gave the returned mapping:
\* the Service members of the structured path, the first tokens of the text
ReportedNames ==
  IF TextIssued
  THEN {SplitWs(TextLines[i])[1] : i \in {j \in Indices(TextLines) : GivesEntry(j)}}
  ELSE {RecordAt(i).Service : i \in {j \in Indices(JsonLines) : IsRecordLine(j)}}

\* C11 as the code has it: a key of the returned mapping is a key of the
\* registry or a name the tool reported, passed through unchanged (so a key
\* outside the registry is possible); only the text path consults the alias
\* table, and a name the table knows is never a key of its result.
C11_KeysRegisteredOrPassedThrough ==
  AtReturn =>
    \A key \in DOMAIN status :
      /\ key \in RegisteredKeys \/ key \in ReportedNames
      /\ TextIssued => key \notin DOMAIN service_mapping

C11_Witness ==
  /\ AtReturn
  /\ TextIssued
  /\ psResult.stdout = TL_PageUp \o "\n" \o TL_Orphan
  /\ DOMAIN status = {"adminer-1"}

(***************************************************************************)
(* C12: when the structured attempt gave no entry (malformed output or a   *)
(* failed command) and the text command fails or gives no entry either,    *)
(* get_service_status returns the empty mapping and never raises, and      *)
(* show_service_status then prints the line of an absent service for each  *)
(* of the five registered services.                                        *)
(***************************************************************************)
\* the status lines printed so far
Prints == SelectSeq(log, LAMBDA e : e.k = "print")

\* the line printed for a registered service that the mapping does not have
AbsentLine(key) == "[||] " \o services[key] \o ": jungjidoem"

AllAbsent == [i \in 1..Len(ServiceKeys) |-> PrintEv(ServiceKeys[i], AbsentLine(ServiceKeys[i]))]

\* the text command of the call of get_service_status in progress failed
TextFailed == \E j \in Cmds("ps") : j > GssCall /\ log[j].rc # 0

C12_EmptyWhenBothFail ==
  /\ op = "get_service_status" => outcome # "raised"
  /\ (AtReturn /\ TextIssued) =>
       /\ DOMAIN structured = {}
       /\ (TextFailed \/ {j \in Indices(TextLines) : GivesEntry(j)} = {}) => status = EmptyDict
  /\ (op = "show_service_status" /\ Finished /\ Called("get_service_status")) =>
       /\ TextFailed => status = EmptyDict
       /\ status = EmptyDict => (outcome = "returned" /\ Prints = AllAbsent)

C12_Witness ==
  /\ op = "show_service_status"
  /\ Finished
  /\ \E j \in Cmds("ps --format json") : log[j].rc # 0
  /\ TextFailed
  /\ Prints = AllAbsent

(***************************************************************************)
(* C13: whatever mapping get_service_status returned, show_service_status  *)
(* prints exactly one status line per registered service, in registry      *)
(* order, none for a key outside the registry, and the line of an absent   *)
(* service for a registered service the mapping does not have.             *)
(***************************************************************************)
C13_OneLinePerService ==
  (op = "show_service_status" /\ Finished) =>
    /\ Len(Prints) = Len(ServiceKeys)
    /\ \A i \in Indices(Prints) : Prints[i].f = ServiceKeys[i]
    /\ \A i \in Indices(Prints) :
         ServiceKeys[i] \notin DOMAIN status => Prints[i].a = AbsentLine(ServiceKeys[i])

(***************************************************************************)
(* C14: show_service_status prints the same line for a registered service  *)
(* that the mapping does not have and for one whose reported state is not  *)
(* a running state, so the line does not tell the two apart.               *)
(***************************************************************************)
\* the i-th registered service is in the mapping with a state that is not running
ReportedNotRunning(i) ==
  /\ ServiceKeys[i] \in DOMAIN status
  /\ ~IsRunningState(status[ServiceKeys[i]])

C14_AbsentAndStoppedAlike ==
  (op = "show_service_status" /\ Finished) =>
    \A i \in Indices(Prints) :
      ReportedNotRunning(i) => Prints[i].a = AbsentLine(ServiceKeys[i])

\* C14 as the code has it: a reported service that is not running is printed
\* with the cross mark and its reported state, an absent one with the pause
\* mark and the fixed word, and the two lines differ.
C14_AbsentAndStoppedDiffer ==
  (op = "show_service_status" /\ Finished) =>
    \A i \in Indices(Prints) :
      LET key == ServiceKeys[i] IN
      /\ Prints[i].f = key
      /\ key \notin DOMAIN status => Prints[i].a = AbsentLine(key)
      /\ ReportedNotRunning(i) =>
           /\ Prints[i].a = "[x] " \o services[key] \o ": " \o status[key]
           /\ Prints[i].a # AbsentLine(key)

C14_Witness ==
  /\ op = "show_service_status"
  /\ Finished
  /\ outcome = "returned"
  /\ DOMAIN status = {"api-server"}
  /\ status["api-server"] = "exited"
  /\ Prints[1].a = AbsentLine("page-server")
  /\ Prints[2].a = "[x] API Server (FastAPI): exited"

(***************************************************************************)
(* C15: a reported state counts as running exactly when its lower-cased    *)
(* text contains "up", "running" or "started", and show_service_status and *)
(* test_services decide by this one predicate: the line either of them     *)
(* prints for a registered service is the line of a running service        *)
(* exactly when the mapping has the service with such a state.             *)
(***************************************************************************)
CountsAsRunning(state) ==
  LET lowered == Lower(state) IN
  \E w \in {"up", "running", "started"} :
    \E i \in 1..(Len(lowered) - Len(w) + 1) : SubSeq(lowered, i, i + Len(w) - 1) = w

\* the event is the line of a running service, of either method
IsRunningLine(e) ==
  \/ e.f \in DOMAIN status /\ e.a = "[v] " \o services[e.f] \o ": " \o status[e.f]
  \/ e.a = "[v] " \o e.f \o " siljung"

\* show_service_status or test_services has just printed its lines: the log
\* ends with them, or with the return that follows them at once
JustPrinted ==
  /\ log # <<>>
  /\ \/ log[Len(log)].k = "print"
     \/ IsRet(log[Len(log)], "show_service_status", "None")
     \/ IsRet(log[Len(log)], "test_services", "False")

C15_SameRunningPredicate ==
  JustPrinted =>
    LET call == GssCall IN
    \A i \in Indices(log) :
      (log[i].k = "print" /\ i > call) =>
        /\ log[i].f \in RegisteredKeys
        /\ IsRunningLine(log[i]) <=>
             (log[i].f \in DOMAIN status /\ CountsAsRunning(status[log[i].f]))

C15_Witness ==
  /\ op = "show_service_status"
  /\ Finished
  /\ DOMAIN status = {"page-server", "api-server"}
  /\ status["page-server"] = "Up"
  /\ Prints[1].a = "[v] Page Server (Next.js): Up"
  /\ Prints[2].a = "[x] API Server (FastAPI): exited"

(***************************************************************************)
(* C16: when a registered service is missing from the mapping or has a     *)
(* state that is not a running state, test_services returns False and      *)
(* probes no port; ports are probed only after all five registered         *)
(* services were found running.                                            *)
(***************************************************************************)
Probes == SelectSeq(log, LAMBDA e : e.k = "probe")

\* the mapping does not report every registered service as running
SomeServiceDown ==
  \E key \in RegisteredKeys : key \notin DOMAIN status \/ ~CountsAsRunning(status[key])

C16_DownMeansFalseAndNoProbe ==
  /\ (op = "test_services" /\ Finished /\ SomeServiceDown) =>
       (outcome = "returned" /\ retval = "False" /\ Probes = <<>>)
  /\ (op = "test_services" /\ Probes # <<>>) => ~SomeServiceDown

(***************************************************************************)
(* C17: test_services returns True exactly when every registered service   *)
(* is reported running, whatever the port probes give (connected, refused, *)
(* timed out, exception): all five ports are probed, in the order of the   *)
(* table, also after a probe that failed, and the result stays True.       *)
(***************************************************************************)
\* the last event of a log is the return of True by test_services
ReturnsTrue(lg) == lg # <<>> /\ IsRet(lg[Len(lg)], "test_services", "True")

\* the step of test_services after the status query: it goes on to the ports
\* exactly when no registered service is down, and has probed nothing
AfterStatusStep ==
  /\ (pc' = "test_services:ports") <=> ~SomeServiceDown
  /\ Probes' = <<>>
  /\ ~ReturnsTrue(log')

\* a step of the loop over the ports: one more probe, of the next port of the
\* table, and whatever it gives the loop goes on, to end with True after the
\* fifth port
ProbeStep ==
  /\ status' = status
  /\ Len(Probes) = portIdx - 1
  /\ Probes' = Append(Probes, log'[Len(log)+1])
  /\ log'[Len(log)+1].f = ports[portIdx]
  /\ outcome' # "raised"
  /\ IF portIdx < Len(ports)
     THEN pc' = pc /\ portIdx' = portIdx + 1 /\ log' = Append(log, log'[Len(log)+1])
     ELSE ReturnsTrue(log')

\* the step is the operator's interrupt under the menu, which is no outcome
\* of a probe
InterruptStep == Len(log') > Len(log) /\ log'[Len(log) + 1].k = "interrupt"

C17_ProbesAreDiagnostic ==
  [][ /\ pc = "test_services:status" => AfterStatusStep
      /\ (pc = "test_services:ports" /\ ~InterruptStep) => ProbeStep
      /\ (ReturnsTrue(log') /\ log' # log) =>
           (pc = "test_services:ports" /\ portIdx = Len(ports)) ]_vars

C17_Witness ==
  /\ op = "test_services"
  /\ Finished
  /\ retval = "True"
  /\ Len(Probes) = 5
  /\ Probes[1].rc = 111
  /\ Probes[2].rc = -1
  /\ Probes[3].rc = 11
  /\ Probes[5].rc = 0

(***************************************************************************)
(* C18: test_basic_environment returns True exactly when all four required *)
(* files exist and `config` exits with 0; the files are checked in their   *)
(* fixed order, and the first missing file makes it return False at once:  *)
(* no further file is checked and `config` is not invoked.                 *)
(***************************************************************************)
\* the position in the log of the latest call of test_basic_environment
TbeCall ==
  CHOOSE i \in Indices(log) :
    /\ IsCall(log[i], "test_basic_environment")
    /\ \A j \in Indices(log) : IsCall(log[j], "test_basic_environment") => j <= i

C18_EnvCheckShortCircuits ==
  Called("test_basic_environment") =>
    LET call  == TbeCall
        files == SelectSeq(SubSeq(log, call + 1, Len(log)), LAMBDA e : e.k = "exists")
        cfg   == {j \in Cmds("config") : j > call}
        rets  == {j \in Indices(log) :
                    j > call /\ log[j].k = "ret" /\ log[j].f = "test_basic_environment"}
        allExist == Len(files) = Len(required_files) /\ \A i \in Indices(files) : files[i].rc = 0
    IN  /\ Len(files) <= Len(required_files)
        /\ \A i \in Indices(files) :
             /\ files[i].f = required_files[i]
             /\ i < Len(files) => files[i].rc = 0
        /\ cfg # {} => (allExist /\ Cardinality(cfg) = 1 /\ rets # {})
        /\ (files # <<>> /\ files[Len(files)].rc # 0) => (rets # {} /\ cfg = {})
        /\ Cardinality(rets) <= 1
        /\ \A j \in rets :
             /\ log[j].a \in {"True", "False"}
             /\ log[j].a = "True" <=> (allExist /\ \E c \in cfg : log[c].rc = 0)
        /\ pc \in {"test_basic_environment", "test_basic_environment:config"} => rets = {}

C18_Witness ==
  /\ op = "test_basic_environment"
  /\ Finished
  /\ retval = "False"
  /\ Len(log) = 4
  /\ log[2] = FileEv("docker-compose.dev.yml", TRUE)
  /\ log[3] = FileEv("Dockerfile.dev", FALSE)
  /\ Cmds("config") = {}

(***************************************************************************)
(* C19: check_docker returns True exactly when `docker --version` and      *)
(* `docker info` both exit with 0; when either exits non-zero or cannot be *)
(* spawned it returns False without raising, and `docker info` is not      *)
(* issued after `docker --version` failed.                                 *)
(***************************************************************************)
C19_BothProbesNeeded ==
  Called("check_docker") =>
    LET version == Cmds("docker --version")
        info    == Cmds("docker info")
        rets    == {j \in Indices(log) : log[j].k = "ret" /\ log[j].f = "check_docker"}
    IN  /\ Cardinality(version) <= 1
        /\ Cardinality(info) <= 1
        /\ \A i \in info : \E v \in version : v < i /\ log[v].rc = 0
        /\ (\E v \in version : log[v].rc # 0) => (info = {} /\ rets # {})
        /\ info # {} => rets # {}
        /\ \A j \in rets :
             /\ log[j].a \in {"True", "False"}
             /\ log[j].a = "True" <=>
                  /\ \E v \in version : log[v].rc = 0
                  /\ \E i \in info : log[i].rc = 0
        /\ op = "check_docker" => outcome # "raised"
        /\ (op = "check_docker" /\ Finished) => rets # {}

C19_Witness ==
  /\ op = "check_docker"
  /\ Finished
  /\ retval = "False"
  /\ \E v \in Cmds("docker --version") : log[v].rc = 0
  /\ \E i \in Cmds("docker info") : log[i].rc = -1

(***************************************************************************)
(* C20: in main, check_docker runs first and check_compose_file second;    *)
(* if either fails the process exits with a non-zero status before any     *)
(* workflow (run-all, run-one, stop-all, status, logs, menu) is            *)
(* dispatched, check_compose_file is not called when check_docker failed,  *)
(* and once both checks passed the dispatched workflow never ends the      *)
(* process: main returns.                                                  *)
(***************************************************************************)
MainWorkflows ==
  {"run_all_services", "run_single_service", "stop_all_services",
   "show_service_status", "show_logs", "show_menu"}

WorkflowCalls == {i \in Indices(log) : log[i].k = "call" /\ log[i].f \in MainWorkflows}

\* the order of the pre-flight checks, and the exits they cause
PreflightOrder ==
  /\ Len(log) >= 2 => IsCall(log[2], "check_docker")
  /\ \A i \in Indices(log) :
       IsCall(log[i], "check_compose_file") =>
         /\ i > 2
         /\ IsRet(log[i - 1], "check_docker", "True")
  /\ \A i \in WorkflowCalls :
       \E c \in 1..(i - 1) :
         /\ IsRet(log[c], "check_compose_file", "True")
         /\ \A w \in WorkflowCalls : w > c
  /\ Returned("check_docker", "False") =>
       /\ ~Called("check_compose_file")
       /\ WorkflowCalls = {}
       /\ pc \in {"main:docker", "done"}
       /\ Finished => outcome = "exited"
  /\ Returned("check_compose_file", "False") =>
       /\ WorkflowCalls = {}
       /\ pc \in {"main:compose", "done"}
       /\ Finished => outcome = "exited"
  /\ outcome = "exited" =>
       /\ WorkflowCalls = {}
       /\ Called("check_docker") =>
            /\ retval = "1"
            /\ Returned("check_docker", "False") \/ Returned("check_compose_file", "False")

C20_OnlyPreflightEndsTheProcess ==
  op = "main" =>
    /\ PreflightOrder
    /\ (Finished /\ WorkflowCalls # {}) => outcome = "returned"

(***************************************************************************)
(* C21: the process started with main ends with status 1 exactly when a    *)
(* pre-flight check (check_docker, check_compose_file) failed, and with 0  *)
(* in every other run, whatever the commands of the workflow gave.         *)
(***************************************************************************)
PreflightFailed ==
  Returned("check_docker", "False") \/ Returned("check_compose_file", "False")

C21_ExitOneIffPreflightFailed ==
  (op = "main" /\ Finished) =>
    /\ ExitStatus \in {"0", "1"}
    /\ ExitStatus = "1" <=> PreflightFailed

(***************************************************************************)
(* C22: no exception leaves main: whatever the external commands give      *)
(* (exit 0, non-zero exit, spawn failure) and whatever the status output   *)
(* contains, the workflow main dispatched returns and main returns.        *)
(***************************************************************************)
C22_NoExceptionLeavesMain ==
  op = "main" =>
    /\ outcome # "raised"
    /\ (Finished /\ ~PreflightFailed /\ Called("check_compose_file")) =>
         Returned("main", "None")

(***************************************************************************)
(* C23: for every set of flags on the command line, once the pre-flight    *)
(* checks have passed main dispatches exactly one workflow, which is the   *)
(* workflow of one of the flags given (run-all, run-one of the five        *)
(* services, stop-all, show-status, show-logs), or the interactive menu    *)
(* exactly when no flag is given; when that workflow returns main returns, *)
(* so two workflows are never run by one invocation.                       *)
(***************************************************************************)
\* the flag that selects workflow fn with argument a, "" for the menu
FlagOf(fn, a) ==
  CASE fn = "run_all_services"    -> "--all"
    [] fn = "run_single_service"  -> "--" \o a
    [] fn = "stop_all_services"   -> "--stop"
    [] fn = "show_service_status" -> "--status"
    [] fn = "show_logs"           -> "--logs"
    [] OTHER                      -> ""

\* main is about to dispatch: both pre-flight checks have passed
AtDispatch == pc = "main:compose" /\ retval = "True"

\* a call made by main itself
MainCalls == stack' # <<>> /\ stack = <<>> /\ op = "main"

C23_OneWorkflowPerCommandLine ==
  [][ /\ AtDispatch =>
           /\ pc' \in MainWorkflows
           /\ stack' = <<"main:end">>
           /\ log' = Append(log, CallEv(pc', arg'))
           /\ pc' = "show_menu" <=> argv = {}
           /\ argv # {} => FlagOf(pc', arg') \in argv
           /\ pc' = "run_single_service" => arg' \in RegisteredKeys
      /\ (MainCalls /\ pc' \in MainWorkflows) => AtDispatch
      /\ pc = "main:end" => (pc' = "done" /\ outcome' = "returned" /\ log'[Len(log')].f = "main")
    ]_vars

C23_Witness ==
  /\ op = "main"
  /\ AtDispatch
  /\ argv = {"--stop", "--logs"}
  /\ Returned("check_compose_file", "True")

(***************************************************************************)
(* C24: in the interactive menu each choice dispatches the operation       *)
(* assigned to it: 0 ends the loop, 1 run_all_services, 2 the submenu,     *)
(* 3 show_service_status, 4 test_services, 5 show_logs, 6                  *)
(* stop_all_services; any other line dispatches nothing and leads to the   *)
(* Enter prompt and the menu again.  In the submenu choice i of 1..5 calls *)
(* run_single_service on the i-th key of the registry, 0 returns with no   *)
(* call, and any other line calls nothing.                                 *)
(***************************************************************************)
MenuTable ==
  [c \in {"1", "2", "3", "4", "5", "6"} |->
     CASE c = "1" -> "run_all_services"
       [] c = "2" -> "show_service_selection_menu"
       [] c = "3" -> "show_service_status"
       [] c = "4" -> "test_services"
       [] c = "5" -> "show_logs"
       [] c = "6" -> "stop_all_services"]

SubmenuChoices == <<"1", "2", "3", "4", "5">>

\* the event the step appends first: the line the prompt has read
LineRead == log'[Len(log) + 1]

\* the step reads a line and calls fn(a) from the frame of label
ReadsAndCalls(fn, a, label) ==
  /\ pc' = fn
  /\ arg' = a
  /\ stack' = <<label>> \o stack
  /\ log' = log \o <<LineRead, CallEv(fn, a)>>

\* the step reads a line and method who returns, nothing being called
ReadsAndReturns(who) ==
  /\ pc' = Head(stack)
  /\ stack' = Tail(stack)
  /\ log' = log \o <<LineRead, RetEv(who, "None")>>

MenuDispatches ==
  pc = "show_menu" =>
    /\ LineRead.k = "input"
    /\ LineRead.a = "0" => ReadsAndReturns("show_menu")
    /\ \A c \in DOMAIN MenuTable :
         LineRead.a = c => ReadsAndCalls(MenuTable[c], "", "show_menu:enter")
    /\ LineRead.a = " 4 " => ReadsAndCalls("test_services", "", "show_menu:enter")
    /\ LineRead.a \in {"7", ""} =>
         /\ pc' = "show_menu:enter"
         /\ stack' = stack
         /\ log' = Append(log, LineRead)

\* after the Enter prompt the menu is shown again, unless the prompt was
\* interrupted
MenuShownAgain ==
  pc = "show_menu:enter" =>
    \/ pc' = "show_menu" /\ stack' = stack
    \/ LineRead = InputEv("show_menu", KeyboardInterrupt)

SubmenuDispatches ==
  pc = "show_service_selection_menu" =>
    /\ LineRead.k = "input"
    /\ \A i \in 1..Len(ServiceKeys) :
         LineRead.a = SubmenuChoices[i] =>
           ReadsAndCalls("run_single_service", ServiceKeys[i],
                         "show_service_selection_menu:done")
    /\ LineRead.a = "03" =>
         ReadsAndCalls("run_single_service", ServiceKeys[3],
                       "show_service_selection_menu:done")
    /\ LineRead.a = " 2" =>
         ReadsAndCalls("run_single_service", ServiceKeys[2],
                       "show_service_selection_menu:done")
    /\ LineRead.a \in {"0", "6", "x", ""} =>
         ReadsAndReturns("show_service_selection_menu")

C24_ChoicesDispatchTheirOperation ==
  [][MenuDispatches /\ MenuShownAgain /\ SubmenuDispatches]_vars

C24_Witness ==
  /\ op = "main"
  /\ pc = "run_single_service"
  /\ arg = "db-server"
  /\ stack = <<"show_service_selection_menu:done", "show_menu:enter", "main:end">>
  /\ Len(log) >= 4
  /\ log[Len(log) - 1] = InputEv("show_service_selection_menu", "3")
  /\ log[Len(log) - 3] = InputEv("show_menu", "2")

(***************************************************************************)
(* C25: a keyboard interrupt that reaches the main menu loop (at the       *)
(* prompt for the choice, at the Enter prompt, or while an operation other *)
(* than the submenu runs) ends the menu cleanly: show_menu returns, no     *)
(* exception leaves it, and nothing is done after the interrupt, in        *)
(* particular no external command is issued.                               *)
(***************************************************************************)
\* the submenu has been entered in this iteration of the menu loop
SubmenuEntered == Called("show_service_selection_menu")

\* the positions in the log of the interrupts that reach the main menu loop
MenuInterrupts ==
  {i \in Indices(log) :
     \/ log[i] = InputEv("show_menu", KeyboardInterrupt)
     \/ log[i].k = "interrupt" /\ ~SubmenuEntered}

C25_InterruptEndsMenuCleanly ==
  \A i \in MenuInterrupts :
    /\ i < Len(log)
    /\ log[i + 1] = RetEv("show_menu", "None")
    /\ \A j \in (i + 1)..Len(log) : log[j].k = "ret"
    /\ outcome # "raised"
    /\ pc \in {"main:end", "done"}
    /\ Finished => (outcome = "returned" /\ Returned("main", "None"))

C25_Witness ==
  /\ op = "main"
  /\ Finished
  /\ outcome = "returned"
  /\ ~SubmenuEntered
  /\ \E i \in Indices(log) : log[i] = IntEv("run_service")
  /\ \E b \in Cmds("build") : log[b].rc = 0

(***************************************************************************)
(* C26: every result of run_command is fully populated: for each value of  *)
(* check and capture_output and each outcome of the process the exit code  *)
(* is an integer and stdout and stderr are strings, never None; after a    *)
(* spawn failure the exit code is -1 and stdout is the empty string.       *)
(***************************************************************************)
RunCommandReturned == op = "run_command" /\ Finished

SpawnFailed == \E i \in Indices(log) : log[i].k = "run" /\ log[i].f = "spawn"

C26_ResultFullyPopulated ==
  RunCommandReturned =>
    /\ psResult.rc \in Int
    /\ psResult.stdout # PyNone
    /\ psResult.stderr # PyNone
    /\ SpawnFailed => (psResult.rc = -1 /\ psResult.stdout = "")

(***************************************************************************)
(* C27: what run_all_services returns after test_services returned False.  *)
(* The claim is that it returns False; the code returns True, the False of *)
(* test_services only selecting a warning.                                 *)
(***************************************************************************)
\* the returns of run_all_services that directly follow a return of False by
\* test_services
AfterFailedTest ==
  {j \in Indices(log) :
     /\ j > 1
     /\ log[j].k = "ret" /\ log[j].f = "run_all_services"
     /\ IsRet(log[j - 1], "test_services", "False")}

TestOptionGiven == op = "main" /\ argv = {"--test"}

C28_TestOptionRunsServiceTest ==
  (TestOptionGiven /\ Finished) =>
    /\ outcome # "exited"
    /\ Called("test_services")
    /\ WorkflowCalls = {}

(***************************************************************************)
(* C29: the main menu loop ends only through the choice 0 or through a     *)
(* keyboard interrupt caught by the loop.  Any other exception, raised by  *)
(* a prompt (end of input) or inside a dispatched operation, is caught by  *)
(* the loop, which iterates again without the Enter prompt; a failed read  *)
(* is therefore always followed by another read, and the loop does not     *)
(* terminate when every read fails.                                        *)
(***************************************************************************)
\* the step appends the return of show_menu to the log
MenuReturns ==
  /\ Len(log') > Len(log)
  /\ log'[Len(log')] = RetEv("show_menu", "None")

\* what the return of show_menu follows directly in the log
MenuEndedBy == log'[Len(log') - 1]

\* the exception of this step can only be caught by the loop of show_menu
OnlyMenuEncloses ==
  /\ UnderMenu
  /\ \A h \in 1..Len(stack) : stack[h] # "show_service_selection_menu:done"

\* the step raises an exception that is no keyboard interrupt: a read at end
\* of input, or .lower() on a State that is no string
RaisesException ==
  \/ /\ pc \in {"show_menu", "show_menu:enter"}
     /\ LineRead = InputEv("show_menu", EOFError)
  \/ /\ pc \in {"test_services:status", "show_service_status:status"}
     /\ \E key \in RegisteredKeys : LowerRaises(status, key)
     /\ OnlyMenuEncloses

\* the frames below show_menu
BelowMenu ==
  LET h == CHOOSE i \in 1..Len(stack) : stack[i] = "show_menu:enter"
  IN  SubSeq(stack, h + 1, Len(stack))

\* the loop goes on: the next statement is the prompt for the choice, in the
\* same call of show_menu
NextRead(frames) ==
  /\ pc' = "show_menu"
  /\ stack' = frames
  /\ outcome' = "running"
  /\ log' = SubSeq(log, 1, MenuCall)

C29_MenuEndsOnlyByChoiceOrInterrupt ==
  [][ /\ MenuReturns =>
           \/ MenuEndedBy = InputEv("show_menu", "0")
           \/ MenuEndedBy = InputEv("show_menu", KeyboardInterrupt)
           \/ MenuEndedBy.k = "interrupt" /\ OnlyMenuEncloses
      /\ (pc = "show_menu" /\ RaisesException) =>
           (pc' = "show_menu:except" /\ stack' = stack /\ outcome' = "running")
      /\ (pc = "show_menu:enter" /\ pc' # "show_menu") => ~RaisesException
      /\ (pc \notin {"show_menu", "show_menu:enter"} /\ RaisesException) =>
           (pc' = "show_menu:except" /\ stack' = BelowMenu /\ outcome' = "running")
      /\ pc = "show_menu:except" => NextRead(stack)
    ]_vars

C29_Witness ==
  /\ op = "main"
  /\ pc = "show_menu:except"
  /\ outcome = "running"
  /\ log[Len(log)] = InputEv("show_menu", EOFError)

(***************************************************************************)
(* C30: a keyboard interrupt inside the service submenu, at its prompt or  *)
(* while run_single_service runs (an external command included), is caught *)
(* by the submenu: the submenu returns to the main menu, which goes on     *)
(* with its Enter prompt and the next iteration, and the main menu loop is *)
(* not ended by that interrupt.                                            *)
(***************************************************************************)
InSubmenu == \E h \in 1..Len(stack) : stack[h] = "show_service_selection_menu:done"

\* the frames from the submenu's caller on
BelowSubmenu ==
  LET h == CHOOSE i \in 1..Len(stack) : stack[i] = "show_service_selection_menu:done"
  IN  SubSeq(stack, h + 1, Len(stack))

\* an interrupt has been caught by the submenu, and none by the main menu
SubmenuInterrupted ==
  /\ \/ \E i \in Indices(log) : log[i] = InputEv("show_service_selection_menu", KeyboardInterrupt)
     \/ SubmenuEntered /\ \E i \in Indices(log) : log[i].k = "interrupt"
  /\ \A i \in Indices(log) : log[i] # InputEv("show_menu", KeyboardInterrupt)

InterruptStaysInSubmenu ==
  /\ (pc = "show_service_selection_menu"
        /\ LineRead = InputEv("show_service_selection_menu", KeyboardInterrupt)) =>
       (ReadsAndReturns("show_service_selection_menu") /\ pc' = "show_menu:enter")
  /\ (InSubmenu /\ InterruptStep) =>
       /\ pc' = "show_service_selection_menu:done"
       /\ stack' = BelowSubmenu
       /\ Head(stack') = "show_menu:enter"
       /\ outcome' = "running"
       /\ log' = Append(log, IntEv(pc))
  /\ pc = "show_service_selection_menu:done" =>
       (pc' = "show_menu:enter" /\ log' = Append(log, RetEv("show_service_selection_menu", "None")))
  /\ (SubmenuInterrupted /\ pc = "show_menu:enter") =>
       \/ pc' = "show_menu" /\ stack' = stack /\ outcome' = "running"
       \/ LineRead = InputEv("show_menu", KeyboardInterrupt)

C30_SubmenuCatchesInterrupt ==
  /\ [](SubmenuInterrupted =>
          /\ outcome = "running"
          /\ ~Returned("show_menu", "None")
          /\ pc \in {"show_service_selection_menu:done", "show_menu:enter"}
          /\ \A i \in Indices(log) :
               log[i].k = "interrupt" => \A j \in (i + 1)..Len(log) : log[j].k = "ret")
  /\ [][InterruptStaysInSubmenu]_vars

C30_Witness ==
  /\ op = "main"
  /\ pc = "show_menu:enter"
  /\ stack = <<"main:end">>
  /\ SubmenuEntered
  /\ \E i \in Indices(log) : log[i] = IntEv("run_service")
  /\ \E b \in Cmds("build") : log[b].rc = 0
  /\ Returned("show_service_selection_menu", "None")
====
